---- MODULE Spec2Model ----
(***************************************************************************)
(* C-Skin chat assistant (src/app/app.py): the message handler main, the   *)
(* resume handler on_chat_resume and the three pipeline functions          *)
(* detect_and_translate, search and generate_response_with_ollama.         *)
(*                                                                         *)
(* Texts are sequences of tokens; " " and "\n" are the whitespace tokens   *)
(* that str.strip() removes.  Python lists are objects with identity: heap *)
(* maps a list's id to its contents, and the session's "history" key holds *)
(* a list id (or NoKey), because cl.user_session.get hands out the stored  *)
(* object itself, not a copy.                                              *)
(*                                                                         *)
(* The handlers of the messages of one session run as tasks of one event   *)
(* loop: a step of the model is what a handler does from one await to the  *)
(* next, and the handlers of different messages interleave at their        *)
(* awaits.  A chat that is resumed runs on_chat_resume first; its messages *)
(* are handled once on_chat_resume has returned.  The locals of a handler  *)
(* exist while it runs; what it sent and what it called stay on record.    *)
(***************************************************************************)
EXTENDS Integers, Sequences, FiniteSets, TLC

\* ------------------------------------------------------------------ bounds
\* Number of messages one session handles (their handlers may overlap).
MaxMsgs == 2

\* Number of points the index may hold for a query, when search is called
\* on its own.
MaxHits == 7

Procs == 1..MaxMsgs

\* ------------------------------------------------------------------- texts
WS == {" ", "\n"}

RECURSIVE LStrip(_)
LStrip(s) == IF s = <<>> THEN s
             ELSE IF Head(s) \in WS THEN LStrip(Tail(s)) ELSE s

RECURSIVE RStrip(_)
RStrip(s) == IF s = <<>> THEN s
             ELSE IF s[Len(s)] \in WS THEN RStrip(SubSeq(s, 1, Len(s) - 1)) ELSE s

\* str.strip()
Strip(s) == RStrip(LStrip(s))

NoInfoMsg   == <<"Tidak ditemukan informasi yang relevan.">>
InternalErrorMsg == <<"Terjadi kesalahan internal. Silakan coba lagi.">>
GenerationErrorMsg == <<"Terjadi kesalahan saat menghasilkan jawaban. Silakan coba lagi.">>
WelcomeMsg  == <<"Selamat datang kembali di C-Skin!">>

\* The text of the k-th message of the session.
MsgText(k) == << <<"What is eczema?">>, <<"Qu'est-ce que l'acne ?">>,
                 <<"Apa itu kurap?">>, <<"Was ist Rosazea?">> >>[k]

\* Outcome of a call into a collaborator: a value, or an exception.
Ok(v)  == [ok |-> TRUE, val |-> v]
Raise  == [ok |-> FALSE, val |-> <<>>]

\* What langdetect.detect may do: a language tag, or LangDetectException.
DetectOutcomes == {Ok("en"), Ok("fr"), Raise}

\* What llama.invoke may do for a translation prompt.
TranslateOutcomes ==
    {Raise, Ok(<<>>), Ok(<<" ", "\n">>), Ok(<<" ", "What is acne?", "\n">>)}

\* A recorded call: op names the callee, arg its argument(s), ok whether it
\* returned (TRUE) or raised (FALSE), ret what it returned.
Call(op, arg, out) == [op |-> op, arg |-> arg, ok |-> out.ok, ret |-> out.val]

\* ------------------------------------------------- detect_and_translate
\* Mutant: the check for English is missing, every input is translated.
detect_and_translate_always(text, det, llm) ==
    LET dcall == <<Call("detect", text, det)>>
        body ==
          IF ~det.ok
          THEN [ret |-> <<>>, exc |-> TRUE, calls |-> dcall]
          ELSE LET translation_prompt == [lang |-> det.val, text |-> text]
                   both == dcall \o <<Call("llama.invoke", translation_prompt, llm)>>
               IN  IF ~llm.ok
                   THEN [ret |-> <<>>, exc |-> TRUE, calls |-> both]
                   ELSE LET translated == Strip(llm.val)
                        IN  IF translated = <<>>
                            THEN [ret |-> text, exc |-> FALSE, calls |-> both]
                            ELSE [ret |-> translated, exc |-> FALSE, calls |-> both]
    IN  IF body.exc
        THEN [ret |-> text, exc |-> FALSE, calls |-> body.calls]
        ELSE body

\* Mutant: the try/except is missing, a raised exception leaves the function.
detect_and_translate_unguarded(text, det, llm) ==
    LET dcall == <<Call("detect", text, det)>>
    IN  IF ~det.ok
        THEN [ret |-> <<>>, exc |-> TRUE, calls |-> dcall]
        ELSE IF det.val = "en"
        THEN [ret |-> text, exc |-> FALSE, calls |-> dcall]
        ELSE LET translation_prompt == [lang |-> det.val, text |-> text]
                 both == dcall \o <<Call("llama.invoke", translation_prompt, llm)>>
             IN  IF ~llm.ok
                 THEN [ret |-> <<>>, exc |-> TRUE, calls |-> both]
                 ELSE LET translated == Strip(llm.val)
                      IN  IF translated = <<>>
                          THEN [ret |-> text, exc |-> FALSE, calls |-> both]
                          ELSE [ret |-> translated, exc |-> FALSE, calls |-> both]

\* Returns ret (the returned text), exc (TRUE iff an exception leaves the
\* function) and calls (the calls of detect and llama.invoke it made).
detect_and_translate(text, det, llm) ==
    LET dcall == <<Call("detect", text, det)>>
        body ==
          IF ~det.ok
          THEN [ret |-> <<>>, exc |-> TRUE, calls |-> dcall]
          ELSE IF det.val = "en"
          THEN [ret |-> text, exc |-> FALSE, calls |-> dcall]
          ELSE LET translation_prompt == [lang |-> det.val, text |-> text]
                   both == dcall \o <<Call("llama.invoke", translation_prompt, llm)>>
               IN  IF ~llm.ok
                   THEN [ret |-> <<>>, exc |-> TRUE, calls |-> both]
                   ELSE LET translated == Strip(llm.val)
                        IN  IF translated = <<>>
                            THEN [ret |-> text, exc |-> FALSE, calls |-> both]
                            ELSE [ret |-> translated, exc |-> FALSE, calls |-> both]
    IN  IF body.exc
        THEN [ret |-> text, exc |-> FALSE, calls |-> body.calls]
        ELSE body

\* ------------------------------------------------------------------ search
\* A point of the vector index: its score (in hundredths) and its payload;
\* none = TRUE is a point whose payload is None.
Point(score, q, a, src, focus) ==
    [score |-> score, none |-> FALSE, question |-> q, answer |-> a,
     source |-> src, focus_area |-> focus]
NoPayloadPoint(score) ==
    [score |-> score, none |-> TRUE, question |-> <<>>, answer |-> <<>>,
     source |-> <<>>, focus_area |-> <<>>]

EczemaPoint == Point(81, <<"What is eczema?">>, <<"Eczema is a skin condition.">>,
                     <<"NIH">>, <<"Eczema">>)
AcnePoint   == Point(55, <<"What causes acne?">>, <<"Clogged pores.">>, <<"NIH">>, <<>>)

\* What the index may hold for a query: an exception to raise, or the
\* points it scores against the query vector, in the order it visits them.
IndexOutcomes ==
    {Raise, Ok(<<>>), Ok(<<AcnePoint, EczemaPoint>>), Ok(<<NoPayloadPoint(70)>>)}

\* The arguments limit and score_threshold of the call of client.search.
Limit == 5
ScoreThreshold == 40

RECURSIVE AtLeast(_, _)
AtLeast(points, threshold) ==
    IF points = <<>> THEN <<>>
    ELSE (IF Head(points).score >= threshold THEN <<Head(points)>> ELSE <<>>)
         \o AtLeast(Tail(points), threshold)

\* Mutant: the index is asked for no limit and no threshold.
client_search_all(points, limit, threshold) == points

\* client.search(query_vector=..., limit=limit, score_threshold=threshold):
\* the index leaves out the points that score below the threshold and
\* returns at most limit of the others.
client_search(points, limit, threshold) ==
    LET kept == AtLeast(points, threshold)
    IN  IF Len(kept) <= limit THEN kept ELSE SubSeq(kept, 1, limit)

\* What model.encode may do.
EncodeOutcomes == {Ok(<<"vector">>), Raise}

\* Mutant: the results are not sorted.
Unsorted(s) == s

\* sorted(results, key=lambda x: x.score, reverse=True): stable, descending.
RECURSIVE InsertDesc(_, _)
InsertDesc(x, s) ==
    IF s = <<>> THEN <<x>>
    ELSE IF Head(s).score >= x.score THEN <<Head(s)>> \o InsertDesc(x, Tail(s))
    ELSE <<x>> \o s

RECURSIVE SortedDesc(_)
SortedDesc(s) ==
    IF s = <<>> THEN <<>>
    ELSE InsertDesc(s[Len(s)], SortedDesc(SubSeq(s, 1, Len(s) - 1)))

\* The f-string of one result, stripped.
Combined(res) ==
    Strip(<<"Q:", " ">> \o res.question \o <<"\n", "A:", " ">> \o res.answer
          \o <<"\n", "Source:", " ">> \o res.source
          \o <<"\n", "Focus Area:", " ">> \o res.focus_area)

\* The call of client.search of lines 72-78 on query vector v, given what
\* the index holds (idx): its arguments and its outcome.
SearchCall(v, idx) ==
    Call("client.search",
         [query_vector |-> v, limit |-> Limit, score_threshold |-> ScoreThreshold],
         IF idx.ok THEN Ok(client_search(idx.val, Limit, ScoreThreshold)) ELSE Raise)

\* Mutant: the try/except is missing, a raised exception leaves the function.
search_unguarded(query, enc, idx) ==
    LET ecall == <<Call("model.encode", query, enc)>>
    IN  IF ~enc.ok
        THEN [ret |-> <<>>, exc |-> TRUE, calls |-> ecall]
        ELSE LET scall == SearchCall(enc.val, idx)
                 both == ecall \o <<scall>>
             IN  IF ~scall.ok
                 THEN [ret |-> <<>>, exc |-> TRUE, calls |-> both]
                 ELSE LET ordered == SortedDesc(scall.ret)
                      IN  IF \E i \in 1..Len(ordered) : ordered[i].none
                          THEN [ret |-> <<>>, exc |-> TRUE, calls |-> both]
                          ELSE [ret |-> [i \in 1..Len(ordered) |->
                                           Combined(ordered[i])],
                                exc |-> FALSE, calls |-> both]

\* Returns ret (the returned list), exc (TRUE iff an exception leaves the
\* function) and calls (the calls of model.encode and client.search it made).
search(query, enc, idx) ==
    LET ecall == <<Call("model.encode", query, enc)>>
        body ==
          IF ~enc.ok
          THEN [ret |-> <<>>, exc |-> TRUE, calls |-> ecall]
          ELSE LET scall == SearchCall(enc.val, idx)
                   both == ecall \o <<scall>>
               IN  IF ~scall.ok
                   THEN [ret |-> <<>>, exc |-> TRUE, calls |-> both]
                   ELSE LET ordered == SortedDesc(scall.ret)
                        IN  IF \E i \in 1..Len(ordered) : ordered[i].none
                            THEN [ret |-> <<>>, exc |-> TRUE, calls |-> both]
                            ELSE [ret |-> [i \in 1..Len(ordered) |->
                                             Combined(ordered[i])],
                                  exc |-> FALSE, calls |-> both]
    IN  IF body.exc
        THEN [ret |-> <<>>, exc |-> FALSE, calls |-> body.calls]
        ELSE body

\* ------------------------------------------ generate_response_with_ollama
DefaultTone == <<"professional and friendly">>
OpeningPhrase == "Terima kasih telah berkonsultasi dengan C-Skin."
ClosingPhrase == "Semoga informasi ini bermanfaat, lekas sembuh, dan terima kasih."

DocLabel(i) == <<"Doc 1:", "Doc 2:", "Doc 3:", "Doc 4:", "Doc 5:", "Doc 6:">>[i]

\* "\n\n".join([f"Doc {i+1}:\n{ctx.strip()}" for i, ctx in enumerate(context)])
RECURSIVE ContextText(_, _)
ContextText(context, i) ==
    IF i > Len(context) THEN <<>>
    ELSE (IF i > 1 THEN <<"\n", "\n">> ELSE <<>>)
         \o <<DocLabel(i), "\n">> \o Strip(context[i]) \o ContextText(context, i + 1)

\* The text an f-string puts for {context}: the repr of the Python list.
RECURSIVE ListRepr(_, _)
ListRepr(context, i) ==
    IF i > Len(context) THEN <<"]">>
    ELSE (IF i > 1 THEN <<",", " ">> ELSE <<"[">>)
         \o <<"'">> \o context[i] \o <<"'">> \o ListRepr(context, i + 1)

\* The rendered prompt: the fixed template with its slots filled in.
Prompt(context, query, tone) ==
    LET context_text == ContextText(context, 1)
        shown == IF context = <<>> THEN <<"[", "]">> ELSE ListRepr(context, 1)
    IN  [tone |-> tone, rule_context |-> shown, opening |-> OpeningPhrase,
         closing |-> ClosingPhrase, context |-> shown, query |-> query]

\* What llama.invoke may do for an answer prompt.
GenerateOutcomes ==
    {Raise,
     Ok(<<" ", OpeningPhrase, " ", "Eczema is a skin condition.", " ", ClosingPhrase, "\n">>)}

\* Mutant: the result of the LLM is returned as it is, not stripped.
generate_response_with_ollama_unstripped(context, query, llm) ==
    LET prompt == Prompt(context, query, DefaultTone)
        inv    == <<Call("llama.invoke", prompt, llm)>>
    IN  IF ~llm.ok
        THEN [ret |-> GenerationErrorMsg, exc |-> FALSE, calls |-> inv]
        ELSE [ret |-> llm.val, exc |-> FALSE, calls |-> inv]

\* Mutant: the try/except is missing, a raised exception leaves the function.
generate_response_with_ollama_unguarded(context, query, llm) ==
    LET prompt == Prompt(context, query, DefaultTone)
        inv    == <<Call("llama.invoke", prompt, llm)>>
    IN  IF ~llm.ok
        THEN [ret |-> <<>>, exc |-> TRUE, calls |-> inv]
        ELSE [ret |-> Strip(llm.val), exc |-> FALSE, calls |-> inv]

\* Returns ret (the returned text), exc (TRUE iff an exception leaves the
\* function) and calls (the call of llama.invoke it made).
generate_response_with_ollama(context, query, llm) ==
    LET prompt == Prompt(context, query, DefaultTone)
        inv    == <<Call("llama.invoke", prompt, llm)>>
        body   == IF ~llm.ok
                  THEN [ret |-> <<>>, exc |-> TRUE]
                  ELSE [ret |-> Strip(llm.val), exc |-> FALSE]
    IN  IF body.exc
        THEN [ret |-> GenerationErrorMsg, exc |-> FALSE, calls |-> inv]
        ELSE [ret |-> body.ret, exc |-> FALSE, calls |-> inv]


\* ------------------------------------------------------------------- state
NoKey == -1          \* the session has no "history" key
ListIds == 0..MaxMsgs

UserTurn(text)      == [role |-> "user", text |-> text]
AssistantTurn(text) == [role |-> "assistant", text |-> text]

\* Histories a resumed session may bring back from its earlier connection.
OldAnswer1 == <<OpeningPhrase, " ", "Psoriasis is chronic.", " ", ClosingPhrase>>
OldAnswer2 == GenerationErrorMsg
RestoredHistories ==
    {<<UserTurn(<<"What is psoriasis?">>), AssistantTurn(OldAnswer1),
       UserTurn(<<"Apa itu panu?">>), UserTurn(<<"Is it contagious?">>),
       AssistantTurn(OldAnswer2)>>}

\* The argument on_chat_resume may be given.
Threads == {"None", "dict", "str"}

\* A cl.Message(content=text).send() and whether it returned (ok) or raised.
Msg(text, ok) == [text |-> text, ok |-> ok]

VARIABLES
    session,     \* value of the session's "history" key: a list id, or NoKey
    heap,        \* list id -> contents of that list object
    pc,          \* per message: where its handler main stands
    content,     \* per message: message.content
    query,       \* per message: main's local query
    history,     \* per message: main's local history (a list id)
    results,     \* per message: main's local results
    response,    \* per message: main's local response
    trace,       \* per message: names of the calls main has made, in order
    calls,       \* per message: the calls of main's latest step (with the
                 \*   calls made inside detect_and_translate and inside
                 \*   generate_response_with_ollama)
    sent,        \* per message: the messages main has sent, in order
    rpc,         \* where on_chat_resume stands
    thread,      \* the argument of on_chat_resume
    rhistory,    \* on_chat_resume's local history (a list id)
    rindex,      \* position of on_chat_resume's for loop in its list
    rsent,       \* the messages on_chat_resume has sent, in order
    fname,       \* the pipeline function called on its own ("none": none)
    fargs,       \* that call's arguments, with what its collaborators do
    fres         \* what that call returned

vars == <<session, heap, pc, content, query, history, results, response, trace,
          calls, sent, rpc, thread, rhistory, rindex, rsent, fname, fargs, fres>>

mainVars   == <<pc, content, query, history, results, response, trace, calls, sent>>
resumeVars == <<rpc, thread, rhistory, rindex, rsent>>
fnVars     == <<fname, fargs, fres>>

\* The history the session stores (cl.user_session.get("history", [])).
StoredHistory == IF session = NoKey THEN <<>> ELSE heap[session]

\* A new chat starts with an empty session and no on_chat_resume to run (rpc
\* = "none"); a resumed chat (rpc = "idle") starts from the session the
\* framework restored, with or without a "history" key.
Init ==
    /\ \/ /\ rpc = "none"
          /\ session = NoKey
          /\ heap = [i \in ListIds |-> <<>>]
       \/ /\ rpc = "idle"
          /\ \/ /\ session = NoKey
                /\ heap = [i \in ListIds |-> <<>>]
             \/ /\ session = 0
                /\ \E h \in RestoredHistories :
                      heap = [i \in ListIds |-> IF i = 0 THEN h ELSE <<>>]
    /\ pc = [p \in Procs |-> "idle"]
    /\ content = [p \in Procs |-> <<>>]
    /\ query = [p \in Procs |-> <<>>]
    /\ history = [p \in Procs |-> NoKey]
    /\ results = [p \in Procs |-> <<>>]
    /\ response = [p \in Procs |-> <<>>]
    /\ trace = [p \in Procs |-> <<>>]
    /\ calls = [p \in Procs |-> <<>>]
    /\ sent = [p \in Procs |-> <<>>]
    /\ thread = "None"
    /\ rhistory = NoKey
    /\ rindex = 0
    /\ rsent = <<>>
    /\ fname = "none"
    /\ fargs = <<>>
    /\ fres = <<>>

\* -------------------------------------------------------------------- main
\* main is over: it has returned ("done") or an exception has left it
\* ("raised").
Over == {"done", "raised"}

\* The handler of message p goes on to `to`; if main is over there, its
\* locals are gone.
Goto(p, to) ==
    /\ pc' = [pc EXCEPT ![p] = to]
    /\ IF to \in Over
       THEN /\ query' = [query EXCEPT ![p] = <<>>]
            /\ history' = [history EXCEPT ![p] = NoKey]
            /\ results' = [results EXCEPT ![p] = <<>>]
            /\ response' = [response EXCEPT ![p] = <<>>]
       ELSE UNCHANGED <<query, history, results, response>>

\* await cl.Message(content=text).send() by the handler of message p: the
\* send returns and main goes on to `returned`, or it raises and main goes
\* on to `failed`.
Send(p, text, returned, failed) ==
    \E ok \in BOOLEAN :
      /\ sent' = [sent EXCEPT ![p] = Append(@, Msg(text, ok))]
      /\ Goto(p, IF ok THEN returned ELSE failed)

\* Lines 156-164: original_query = message.content and the awaited
\* detect_and_translate.  Messages are numbered in the order they arrive.
main_normalize(p) ==
    /\ pc[p] = "idle"
    /\ rpc = "none"
    /\ p > 1 => pc[p - 1] # "idle"
    /\ \E det \in DetectOutcomes, llm \in TranslateOutcomes :
         LET original_query == MsgText(p)
             r == detect_and_translate(original_query, det, llm)
         IN  /\ content' = [content EXCEPT ![p] = original_query]
             /\ trace' = [trace EXCEPT ![p] = Append(@, "detect_and_translate")]
             /\ calls' = [calls EXCEPT ![p] = r.calls]
             /\ IF r.exc
                THEN /\ pc' = [pc EXCEPT ![p] = "except"]
                     /\ query' = query
                ELSE /\ pc' = [pc EXCEPT ![p] = "normalized"]
                     /\ query' = [query EXCEPT ![p] = r.ret]
    /\ UNCHANGED <<session, heap, history, results, response, sent>>
    /\ UNCHANGED resumeVars
    /\ UNCHANGED fnVars

\* Mutant: the user turn is not appended.
main_retrieve_no_append(p) ==
    /\ pc[p] = "normalized"
    /\ \E enc \in EncodeOutcomes, idx \in IndexOutcomes :
         LET h == IF session = NoKey THEN p ELSE session
             r == search(query[p], enc, idx)
         IN  /\ history' = [history EXCEPT ![p] = h]
             /\ heap' = heap
             /\ trace' = [trace EXCEPT ![p] = @ \o <<"get", "append", "search">>]
             /\ calls' = [calls EXCEPT ![p] = <<Call("search", query[p], Ok(r.ret))>>]
             /\ IF r.exc
                THEN /\ pc' = [pc EXCEPT ![p] = "except"]
                     /\ results' = results
                ELSE /\ pc' = [pc EXCEPT ![p] = "retrieved"]
                     /\ results' = [results EXCEPT ![p] = r.ret]
    /\ UNCHANGED <<session, content, query, response, sent>>
    /\ UNCHANGED resumeVars
    /\ UNCHANGED fnVars

\* Mutant: the user turn holds the translated query, not the raw text.
main_retrieve_stores_query(p) ==
    /\ pc[p] = "normalized"
    /\ \E enc \in EncodeOutcomes, idx \in IndexOutcomes :
         LET h == IF session = NoKey THEN p ELSE session
             r == search(query[p], enc, idx)
         IN  /\ history' = [history EXCEPT ![p] = h]
             /\ heap' = [heap EXCEPT ![h] = Append(@, UserTurn(query[p]))]
             /\ trace' = [trace EXCEPT ![p] = @ \o <<"get", "append", "search">>]
             /\ calls' = [calls EXCEPT ![p] = <<Call("search", query[p], Ok(r.ret))>>]
             /\ IF r.exc
                THEN /\ pc' = [pc EXCEPT ![p] = "except"]
                     /\ results' = results
                ELSE /\ pc' = [pc EXCEPT ![p] = "retrieved"]
                     /\ results' = [results EXCEPT ![p] = r.ret]
    /\ UNCHANGED <<session, content, query, response, sent>>
    /\ UNCHANGED resumeVars
    /\ UNCHANGED fnVars

\* Lines 167-171: history = cl.user_session.get("history", []), the append of
\* the user turn, and the awaited search.  With no "history" key, get returns
\* the fresh list of its default argument, which the session does not hold.
main_retrieve(p) ==
    /\ pc[p] = "normalized"
    /\ \E enc \in EncodeOutcomes, idx \in IndexOutcomes :
         LET h == IF session = NoKey THEN p ELSE session
             r == search(query[p], enc, idx)
         IN  /\ history' = [history EXCEPT ![p] = h]
             /\ heap' = [heap EXCEPT ![h] = Append(@, UserTurn(content[p]))]
             /\ trace' = [trace EXCEPT ![p] = @ \o <<"get", "append", "search">>]
             /\ calls' = [calls EXCEPT ![p] = <<Call("search", query[p], Ok(r.ret))>>]
             /\ IF r.exc
                THEN /\ pc' = [pc EXCEPT ![p] = "except"]
                     /\ results' = results
                ELSE /\ pc' = [pc EXCEPT ![p] = "retrieved"]
                     /\ results' = [results EXCEPT ![p] = r.ret]
    /\ UNCHANGED <<session, content, query, response, sent>>
    /\ UNCHANGED resumeVars
    /\ UNCHANGED fnVars

\* Mutant: the short-circuit on empty results is missing.
main_respond_no_short_circuit(p) ==
    /\ pc[p] = "retrieved"
    /\ \E llm \in GenerateOutcomes :
         LET r == generate_response_with_ollama(results[p], query[p], llm)
         IN  /\ trace' = [trace EXCEPT ![p] = Append(@, "generate")]
             /\ calls' = [calls EXCEPT ![p] =
                    <<Call("generate", [context |-> results[p], query |-> query[p]],
                           Ok(r.ret))>> \o r.calls]
             /\ pc' = [pc EXCEPT ![p] = "generated"]
             /\ response' = [response EXCEPT ![p] = r.ret]
    /\ UNCHANGED <<session, heap, content, query, history, results, sent>>
    /\ UNCHANGED resumeVars
    /\ UNCHANGED fnVars

\* Mutant: the return after the no-information message is missing, main
\* goes on to the generation.
main_respond_no_return(p) ==
    /\ pc[p] = "retrieved"
    /\ \E llm \in GenerateOutcomes, ok \in BOOLEAN :
         LET r == generate_response_with_ollama(results[p], query[p], llm)
             empty == results[p] = <<>>
         IN  /\ sent' = IF empty THEN [sent EXCEPT ![p] = Append(@, Msg(NoInfoMsg, ok))]
                        ELSE sent
             /\ IF empty /\ ~ok
                THEN /\ trace' = [trace EXCEPT ![p] = Append(@, "send")]
                     /\ calls' = [calls EXCEPT ![p] = <<>>]
                     /\ pc' = [pc EXCEPT ![p] = "except"]
                     /\ response' = response
                ELSE /\ trace' = [trace EXCEPT ![p] =
                                    @ \o (IF empty THEN <<"send">> ELSE <<>>) \o <<"generate">>]
                     /\ calls' = [calls EXCEPT ![p] =
                            <<Call("generate", [context |-> results[p], query |-> query[p]],
                                   Ok(r.ret))>> \o r.calls]
                     /\ pc' = [pc EXCEPT ![p] = "generated"]
                     /\ response' = [response EXCEPT ![p] = r.ret]
    /\ UNCHANGED <<session, heap, content, query, history, results>>
    /\ UNCHANGED resumeVars
    /\ UNCHANGED fnVars

\* Lines 172-177: the short-circuit on empty results (send the fixed message
\* and return), otherwise the awaited generation.
main_respond(p) ==
    /\ pc[p] = "retrieved"
    /\ IF results[p] = <<>>
       THEN /\ Send(p, NoInfoMsg, "done", "except")
            /\ trace' = [trace EXCEPT ![p] = Append(@, "send")]
            /\ calls' = [calls EXCEPT ![p] = <<>>]
       ELSE \E llm \in GenerateOutcomes :
              LET r == generate_response_with_ollama(results[p], query[p], llm)
              IN  /\ trace' = [trace EXCEPT ![p] = Append(@, "generate")]
                  /\ calls' = [calls EXCEPT ![p] =
                         <<Call("generate", [context |-> results[p], query |-> query[p]],
                                Ok(r.ret))>> \o r.calls]
                  /\ UNCHANGED <<query, history, results, sent>>
                  /\ IF r.exc
                     THEN /\ pc' = [pc EXCEPT ![p] = "except"]
                          /\ response' = response
                     ELSE /\ pc' = [pc EXCEPT ![p] = "generated"]
                          /\ response' = [response EXCEPT ![p] = r.ret]
    /\ UNCHANGED <<session, heap, content>>
    /\ UNCHANGED resumeVars
    /\ UNCHANGED fnVars

\* Mutant: cl.user_session.set is not called.
main_deliver_no_set(p) ==
    /\ pc[p] = "generated"
    /\ heap' = [heap EXCEPT ![history[p]] = Append(@, AssistantTurn(response[p]))]
    /\ session' = session
    /\ Send(p, response[p], "done", "except")
    /\ trace' = [trace EXCEPT ![p] = @ \o <<"append", "send">>]
    /\ calls' = [calls EXCEPT ![p] = <<>>]
    /\ UNCHANGED content
    /\ UNCHANGED resumeVars
    /\ UNCHANGED fnVars

\* Mutant: the history is replaced by the current exchange, not appended to.
main_deliver_overwrites(p) ==
    /\ pc[p] = "generated"
    /\ heap' = [heap EXCEPT ![history[p]] =
                  <<UserTurn(content[p]), AssistantTurn(response[p])>>]
    /\ session' = history[p]
    /\ Send(p, response[p], "done", "except")
    /\ trace' = [trace EXCEPT ![p] = @ \o <<"append", "set", "send">>]
    /\ calls' = [calls EXCEPT ![p] = <<>>]
    /\ UNCHANGED content
    /\ UNCHANGED resumeVars
    /\ UNCHANGED fnVars

\* Mutant: the response is sent first, and stored only if the send returns.
main_deliver_send_first(p) ==
    /\ pc[p] = "generated"
    /\ \E ok \in BOOLEAN :
         /\ sent' = [sent EXCEPT ![p] = Append(@, Msg(response[p], ok))]
         /\ Goto(p, IF ok THEN "done" ELSE "except")
         /\ heap' = IF ok
                    THEN [heap EXCEPT ![history[p]] = Append(@, AssistantTurn(response[p]))]
                    ELSE heap
         /\ session' = IF ok THEN history[p] ELSE session
         /\ trace' = [trace EXCEPT ![p] =
                        @ \o (IF ok THEN <<"send", "append", "set">> ELSE <<"send">>)]
    /\ calls' = [calls EXCEPT ![p] = <<>>]
    /\ UNCHANGED content
    /\ UNCHANGED resumeVars
    /\ UNCHANGED fnVars

\* Lines 180-186: append the assistant turn, cl.user_session.set, send.
main_deliver(p) ==
    /\ pc[p] = "generated"
    /\ heap' = [heap EXCEPT ![history[p]] = Append(@, AssistantTurn(response[p]))]
    /\ session' = history[p]
    /\ Send(p, response[p], "done", "except")
    /\ trace' = [trace EXCEPT ![p] = @ \o <<"append", "set", "send">>]
    /\ calls' = [calls EXCEPT ![p] = <<>>]
    /\ UNCHANGED content
    /\ UNCHANGED resumeVars
    /\ UNCHANGED fnVars

\* Lines 188-190: the except clause sends the generic message; an exception
\* raised by that send leaves main ("raised").
main_except(p) ==
    /\ pc[p] = "except"
    /\ Send(p, InternalErrorMsg, "done", "raised")
    /\ trace' = [trace EXCEPT ![p] = Append(@, "send")]
    /\ calls' = [calls EXCEPT ![p] = <<>>]
    /\ UNCHANGED <<session, heap, content>>
    /\ UNCHANGED resumeVars
    /\ UNCHANGED fnVars

\* ---------------------------------------------------------- on_chat_resume
\* Mutant: the filter on the role is missing, every turn is replayed.
NextTurn(h, i) == IF i < Len(h) THEN i + 1 ELSE 0

\* Index of the first assistant turn of list h after position i (0: none).
NextAssistant(h, i) ==
    LET later == {j \in (i + 1)..Len(h) : h[j]["role"] = "assistant"}
    IN  IF later = {} THEN 0 ELSE CHOOSE j \in later : \A k \in later : j <= k

\* The for loop of lines 208-210 over list h from position i up to its next
\* awaited send ("replay"), or to its end, where on_chat_resume returns.
Replay(h, i) ==
    LET j == NextAssistant(h, i)
    IN  IF j = 0
        THEN /\ rpc' = "returned"
             /\ rindex' = Len(h)
             /\ rsent' = rsent
        ELSE \E ok \in BOOLEAN :
               /\ rsent' = Append(rsent, Msg(h[j]["text"], ok))
               /\ rindex' = j
               /\ rpc' = IF ok THEN "replay" ELSE "raised"

\* Mutant: only None is taken for an invalid thread (no isinstance check).
on_chat_resume_none_only(t) ==
    /\ rpc = "idle"
    /\ thread' = t
    /\ IF t = "None"
       THEN /\ heap' = [heap EXCEPT ![0] = <<>>]
            /\ session' = 0
            /\ rhistory' = rhistory
            /\ rindex' = rindex
            /\ \E ok \in BOOLEAN :
                 /\ rsent' = Append(rsent, Msg(WelcomeMsg, ok))
                 /\ rpc' = IF ok THEN "returned" ELSE "raised"
       ELSE LET l == IF session = NoKey THEN 0 ELSE session
            IN  /\ UNCHANGED <<heap, session>>
                /\ rhistory' = l
                /\ Replay(heap[l], 0)
    /\ UNCHANGED mainVars
    /\ UNCHANGED fnVars

\* Lines 196-205: the call of on_chat_resume, up to its first await: the
\* reset and the welcome message for an invalid thread, otherwise the start
\* of the replay of the stored history.
on_chat_resume(t) ==
    /\ rpc = "idle"
    /\ thread' = t
    /\ IF t # "dict"
       THEN /\ heap' = [heap EXCEPT ![0] = <<>>]
            /\ session' = 0
            /\ rhistory' = rhistory
            /\ rindex' = rindex
            /\ \E ok \in BOOLEAN :
                 /\ rsent' = Append(rsent, Msg(WelcomeMsg, ok))
                 /\ rpc' = IF ok THEN "returned" ELSE "raised"
       ELSE LET l == IF session = NoKey THEN 0 ELSE session
            IN  /\ UNCHANGED <<heap, session>>
                /\ rhistory' = l
                /\ Replay(heap[l], 0)
    /\ UNCHANGED mainVars
    /\ UNCHANGED fnVars

\* Lines 208-210: the loop goes on after an awaited send has returned.
on_chat_resume_next ==
    /\ rpc = "replay"
    /\ UNCHANGED <<heap, session, thread, rhistory>>
    /\ Replay(heap[rhistory], rindex)
    /\ UNCHANGED mainVars
    /\ UNCHANGED fnVars

\* on_chat_resume has returned (line 203, or the end of the loop of line
\* 208): its locals are gone and the chat takes messages.
on_chat_resume_end ==
    /\ rpc = "returned"
    /\ rpc' = "none"
    /\ thread' = "None"
    /\ rhistory' = NoKey
    /\ rindex' = 0
    /\ UNCHANGED <<heap, session, rsent>>
    /\ UNCHANGED mainVars
    /\ UNCHANGED fnVars

Next ==
    \/ \E p \in Procs : main_normalize(p)
    \/ \E p \in Procs : main_retrieve(p)
    \/ \E p \in Procs : main_respond(p)
    \/ \E p \in Procs : main_deliver(p)
    \/ \E p \in Procs : main_except(p)
    \/ \E t \in Threads : on_chat_resume(t)
    \/ on_chat_resume_next
    \/ on_chat_resume_end

Spec == Init /\ [][Next]_vars

\* ------------------------------------------ messages handled one at a time
\* The handler of message p starts when the handlers of the messages before
\* it are over.
main_normalize_serial(p) ==
    /\ \A q \in Procs : q < p => pc[q] \in Over
    /\ main_normalize(p)

SerialNext ==
    \/ \E p \in Procs : main_normalize_serial(p)
    \/ \E p \in Procs : main_retrieve(p)
    \/ \E p \in Procs : main_respond(p)
    \/ \E p \in Procs : main_deliver(p)
    \/ \E p \in Procs : main_except(p)
    \/ \E t \in Threads : on_chat_resume(t)
    \/ on_chat_resume_next
    \/ on_chat_resume_end

SerialSpec == Init /\ [][SerialNext]_vars

\* ------------------------------------------- the pipeline functions alone
\* Points of the index when search is called on its own: two with the same
\* score and one that scores below the threshold.
RosaceaPoint == Point(55, <<"What is rosacea?">>, <<"A facial redness.">>,
                      <<"CDC">>, <<"Rosacea">>)
WartPoint    == Point(35, <<"What is a wart?">>, <<"A skin growth.">>, <<>>, <<"Warts">>)
PointPool == {EczemaPoint, AcnePoint, RosaceaPoint, WartPoint}

\* The lists of points the index may hold: the points of the pool in every
\* order, and lists with a point that has no payload.
HitLists ==
    UNION {[1..n -> PointPool] : n \in 0..MaxHits}
    \cup {<<NoPayloadPoint(70)>>, <<EczemaPoint, NoPayloadPoint(70), AcnePoint>>}

\* Context lists generate_response_with_ollama may be given; the last one
\* holds a record with whitespace around it.
Contexts ==
    {<<>>,
     <<Combined(EczemaPoint)>>,
     <<Combined(EczemaPoint), Combined(AcnePoint)>>,
     <<Combined(RosaceaPoint), <<"\n">> \o Combined(AcnePoint) \o <<" ">>,
       Combined(EczemaPoint)>>}

\* What llama.invoke may do for an answer prompt: besides GenerateOutcomes,
\* the fallback phrase the prompt itself asks for, and an answer that stops
\* before the closing phrase.
FallbackPhrase == "Ini adalah semua informasi yang saya miliki."
AnswerOutcomes ==
    GenerateOutcomes \cup
    {Ok(<<FallbackPhrase>>),
     Ok(<<OpeningPhrase, " ", "Eczema is a skin condition.">>)}

\* No pipeline function has been called on its own, and no chat is running.
FunctionInit == Init /\ rpc = "none"

\* search(query) called on its own.
call_search ==
    /\ fname = "none"
    /\ \E enc \in EncodeOutcomes, idx \in {Raise} \cup {Ok(h) : h \in HitLists} :
         LET q == MsgText(1)
         IN  /\ enc.ok \/ idx = Raise   \* no index call after a failed encode
             /\ fname' = "search"
             /\ fargs' = [query |-> q, enc |-> enc, idx |-> idx]
             /\ fres' = search(q, enc, idx)
    /\ UNCHANGED <<session, heap>>
    /\ UNCHANGED mainVars
    /\ UNCHANGED resumeVars

\* generate_response_with_ollama(context, query) called on its own.
call_generate_response_with_ollama ==
    /\ fname = "none"
    /\ \E context \in Contexts, llm \in AnswerOutcomes :
         LET q == MsgText(1)
         IN  /\ fname' = "generate_response_with_ollama"
             /\ fargs' = [context |-> context, query |-> q, llm |-> llm]
             /\ fres' = generate_response_with_ollama(context, q, llm)
    /\ UNCHANGED <<session, heap>>
    /\ UNCHANGED mainVars
    /\ UNCHANGED resumeVars

FunctionNext ==
    \/ call_search
    \/ call_generate_response_with_ollama

FunctionSpec == FunctionInit /\ [][FunctionNext]_vars

\* ------------------------------------------------------------------ claims
Range(s) == {s[i] : i \in DOMAIN s}
Count(s, x) == Cardinality({i \in DOMAIN s : s[i] = x})
Texts(msgs) == [i \in DOMAIN msgs |-> msgs[i].text]
IsPrefix(s, t) == Len(s) <= Len(t) /\ SubSeq(t, 1, Len(s)) = s

\* The calls main has made when search has returned.
UpToSearch == <<"detect_and_translate", "get", "append", "search">>

\* C1: when search has returned an empty sequence, the next step of main
\* invokes no generation, sends the fixed "Tidak ditemukan informasi yang
\* relevan." and appends nothing to any history; main then returns, or, if
\* that send raised, goes through its except clause, which appends nothing
\* and invokes no generation either.
C1_EmptyShortCircuit ==
    [][\A p \in Procs :
         /\ (pc[p] = "retrieved" /\ results[p] = <<>> /\ pc'[p] # pc[p]) =>
              /\ trace'[p] = UpToSearch \o <<"send">>
              /\ Texts(sent'[p]) = <<NoInfoMsg>>
              /\ pc'[p] = IF sent'[p][1].ok THEN "done" ELSE "except"
              /\ heap' = heap
              /\ session' = session
         /\ (pc[p] = "except" /\ pc'[p] # pc[p]) =>
              /\ trace'[p] = Append(trace[p], "send")
              /\ heap' = heap
              /\ session' = session
      ]_vars

C1_Witness ==
    \E p \in Procs :
      /\ pc[p] = "done"
      /\ trace[p] = UpToSearch \o <<"send">>
      /\ sent[p] = <<Msg(NoInfoMsg, TRUE)>>
      /\ \A l \in ListIds : \A i \in DOMAIN heap[l] : heap[l][i]["role"] = "user"

\* C2: when search returns a non-empty sequence, the step after it invokes
\* generation once, with all retrieved records and the normalized query, and
\* keeps its result as the response; the next step appends that response as
\* one assistant turn to the handler's history list, stores that list in the
\* session, and sends exactly the text of the stored assistant turn.
C2_GenerateStoreDeliver ==
    [][\A p \in Procs :
         /\ (pc[p] = "retrieved" /\ results[p] # <<>> /\ pc'[p] # pc[p]) =>
              /\ pc'[p] = "generated"
              /\ Count(trace'[p], "generate") = 1
              /\ calls'[p][1] =
                   Call("generate", [context |-> results[p], query |-> query[p]],
                        Ok(response'[p]))
              /\ Len(calls'[p]) = 2
              /\ calls'[p][2].op = "llama.invoke"
         /\ (pc[p] = "generated" /\ pc'[p] # pc[p]) =>
              /\ Count(trace'[p], "generate") = 1
              /\ heap'[history[p]] =
                   Append(heap[history[p]], AssistantTurn(response[p]))
              /\ session' = history[p]
              /\ StoredHistory'[Len(StoredHistory')] = AssistantTurn(response[p])
              /\ Len(sent'[p]) = 1
              /\ sent'[p][1].text = StoredHistory'[Len(StoredHistory')].text
      ]_vars

C2_Witness ==
    \E p \in Procs :
      /\ pc[p] = "done"
      /\ trace[p] = UpToSearch \o <<"generate", "append", "set", "send">>
      /\ sent[p] = <<Msg(<<OpeningPhrase, " ", "Eczema is a skin condition.",
                           " ", ClosingPhrase>>, TRUE)>>
      /\ StoredHistory[Len(StoredHistory)] = AssistantTurn(sent[p][1].text)

\* No send of the handler of message p has raised.
AllDelivered(p) == \A i \in DOMAIN sent[p] : sent[p][i].ok

\* C3 (as claimed): once main has finished handling a message, the history
\* stored in the session contains a user turn with that message's raw text.
C3_UserTurnStored ==
    \A p \in Procs :
      (pc[p] = "done" /\ AllDelivered(p)) =>
        UserTurn(content[p]) \in Range(StoredHistory)

\* What detect_and_translate must return, from the outcomes of the calls it
\* made: c[1] is detect, c[2] (if present) llama.invoke.
Normalized(text, c) ==
    IF c[1].ok /\ c[1].ret # "en" /\ c[2].ok /\ Strip(c[2].ret) # <<>>
    THEN Strip(c[2].ret)
    ELSE text

\* C4: the user turn main appends holds the raw message text, never the
\* translation; the query main keeps is the output of detect_and_translate,
\* and it is the query given to search and to generation.
C4_RawStoredTranslatedQueried ==
    \A p \in Procs :
      /\ pc[p] = "normalized" => query[p] = Normalized(content[p], calls[p])
      /\ pc[p] \in {"retrieved", "generated"} =>
           /\ UserTurn(content[p]) \in Range(heap[history[p]])
           /\ query[p] # content[p] =>
                \A l \in ListIds : UserTurn(query[p]) \notin Range(heap[l])
      /\ pc[p] = "retrieved" =>
           calls[p] = <<Call("search", query[p], Ok(results[p]))>>
      /\ pc[p] = "generated" =>
           /\ calls[p][1].op = "generate"
           /\ calls[p][1].arg.query = query[p]
           /\ calls[p][2].arg.query = query[p]

C4_Witness ==
    \E p \in Procs :
      /\ pc[p] = "generated"
      /\ query[p] # content[p]
      /\ UserTurn(content[p]) \in Range(heap[history[p]])
      /\ calls[p][1].arg.query = Strip(<<" ", "What is acne?", "\n">>)

\* C5 (as claimed): main never lets an exception leave it, and after a
\* failure the message the user receives last is the generic one.
C5_NeverPropagates ==
    \A p \in Procs :
      /\ pc[p] # "raised"
      /\ (pc[p] = "done" /\ ~AllDelivered(p)) =>
           sent[p][Len(sent[p])] = Msg(InternalErrorMsg, TRUE)

\* A step of the handler of some message.
MainStep == \E p \in Procs : pc'[p] # pc[p]

\* C6 (as claimed): every step of message handling leaves the stored history
\* a prefix of what it is afterwards, also when handlers interleave.
C6_AppendOnly == [][MainStep => IsPrefix(StoredHistory, StoredHistory')]_vars

\* The handler of message p holds a list other than the one the session has
\* come to store.
LostRace(p) == history[p] # NoKey /\ session \notin {NoKey, history[p]}

\* C6 (amended): every step of message handling leaves the stored history a
\* prefix of what it is afterwards, also when handlers interleave, except the
\* step of a handler that holds a list other than the one the session stores;
\* both lists are then fresh lists of get's default argument, handed to
\* handlers that read the history while the session had no "history" key.
C6_AppendOnlyUnlessLostRace ==
    [][\A p \in Procs :
         pc'[p] # pc[p] =>
           IF LostRace(p)
           THEN history[p] \in Procs /\ session \in Procs
           ELSE IsPrefix(StoredHistory, StoredHistory')
      ]_vars

\* Two handlers that overlapped on the stored list: both user turns were
\* appended before either assistant turn, and all four turns are stored.
C6_Witness ==
    \E p, q \in Procs :
      /\ p # q
      /\ pc[p] = "done" /\ pc[q] = "done"
      /\ \E i \in 1..(Len(StoredHistory) - 3) :
           /\ StoredHistory[i] = UserTurn(content[p])
           /\ StoredHistory[i + 1] = UserTurn(content[q])
           /\ StoredHistory[i + 2]["role"] = "assistant"
           /\ StoredHistory[i + 3]["role"] = "assistant"

\* C7: on_chat_resume with a thread that is None or not a dict stores an
\* empty list as the session's history and sends the fixed welcome message
\* and nothing else; it returns if that send returns.
C7_InvalidThreadResets ==
    [][/\ (rpc = "idle" /\ rpc' # "idle" /\ thread' # "dict") =>
            /\ Texts(rsent') = <<WelcomeMsg>>
            /\ session' # NoKey
            /\ StoredHistory' = <<>>
            /\ rpc' = IF rsent'[1].ok THEN "returned" ELSE "raised"
       /\ (rpc = "returned" /\ rpc' # "returned") =>
            /\ rsent' = rsent
            /\ session' = session
            /\ heap' = heap
      ]_vars

C7_Witness ==
    /\ thread = "str"
    /\ rpc = "returned"
    /\ rsent = <<Msg(WelcomeMsg, TRUE)>>
    /\ StoredHistory = <<>>
    /\ session # NoKey

\* The texts of the assistant turns of history h, in order.
RECURSIVE AssistantTexts(_)
AssistantTexts(h) ==
    IF h = <<>> THEN <<>>
    ELSE (IF Head(h)["role"] = "assistant" THEN <<Head(h)["text"]>> ELSE <<>>)
         \o AssistantTexts(Tail(h))

\* C8: when on_chat_resume with a dict thread returns, the messages it has
\* sent are exactly the texts of the assistant turns of the stored history,
\* one each and in history order; until then they are those of the turns its
\* loop has passed.
C8_ReplaysAssistantTurns ==
    (thread = "dict" /\ rpc \in {"replay", "returned", "raised"}) =>
      /\ Texts(rsent) = AssistantTexts(SubSeq(heap[rhistory], 1, rindex))
      /\ rpc = "returned" =>
           /\ Texts(rsent) = AssistantTexts(StoredHistory)
           /\ \A i \in DOMAIN rsent : rsent[i].ok

\* The replay of a restored history of five turns, two of them assistant
\* turns.
C8_Witness ==
    /\ thread = "dict"
    /\ rpc = "returned"
    /\ Len(StoredHistory) = 5
    /\ rsent = <<Msg(OldAnswer1, TRUE), Msg(OldAnswer2, TRUE)>>

\* C9: when the detected language is English, detect_and_translate returns
\* its input unchanged and makes no LLM call.
C9_EnglishUnchanged ==
    \A p \in Procs :
      (pc[p] = "normalized" /\ calls[p][1].ok /\ calls[p][1].ret = "en") =>
        /\ query[p] = content[p]
        /\ calls[p] = <<Call("detect", content[p], Ok("en"))>>

C9_Witness ==
    \E p \in Procs :
      /\ pc[p] = "normalized"
      /\ calls[p] = <<Call("detect", content[p], Ok("en"))>>
      /\ query[p] = content[p]

\* detect raised, or the translation call raised or returned a text that is
\* empty once stripped (c: the calls detect_and_translate made).
TranslationFailed(c) ==
    \/ ~c[1].ok
    \/ /\ c[1].ret # "en"
       /\ ~c[2].ok \/ Strip(c[2].ret) = <<>>

\* C10: when detection raises, or the input is not English and the
\* translation call raises or returns a text empty after trimming,
\* detect_and_translate raises nothing and returns the original text, and the
\* search that follows is given the original text.
C10_FallbackToOriginal ==
    [][\A p \in Procs :
         /\ (pc[p] = "idle" /\ pc'[p] # "idle") =>
              /\ pc'[p] = "normalized"
              /\ TranslationFailed(calls'[p]) => query'[p] = content'[p]
         /\ (pc[p] = "normalized" /\ TranslationFailed(calls[p]) /\ pc'[p] # pc[p]) =>
              calls'[p] = <<Call("search", content[p], Ok(results'[p]))>>
      ]_vars

C10_Witness ==
    \E p \in Procs :
      /\ pc[p] = "normalized"
      /\ Len(calls[p]) = 2
      /\ calls[p][1] = Call("detect", content[p], Ok("fr"))
      /\ ~calls[p][2].ok
      /\ query[p] = content[p]

\* search was called on its own and the index returned a list of points.
IndexReturned ==
    /\ fname = "search"
    /\ Len(fres.calls) = 2
    /\ fres.calls[2].ok

\* The list the index returned to search.
Returned == fres.calls[2].ret

\* The score of the point of the pool that is rendered as record r.
ScoreOf(r) ==
    (CHOOSE x \in PointPool : ~x.none /\ Combined(x) = r).score

\* The records ret are the renderings of the points, one each, ordered by
\* non-increasing score.
RenderedByScore(points, ret) ==
    /\ Len(ret) = Len(points)
    /\ \A x \in Range(points) :
         Count(ret, Combined(x)) = Count(points, x)
    /\ \A i, j \in DOMAIN ret : i < j => ScoreOf(ret[i]) >= ScoreOf(ret[j])

\* C11 (as claimed): for every list the index returns, in whatever order,
\* search returns one rendered record per result, by non-increasing score.
C11_SortedOnePerResult ==
    IndexReturned => RenderedByScore(Returned, fres.ret)

\* C11 (amended): for every list the index returns in which every result
\* carries a payload, in whatever order, search returns one rendered record
\* per result, by non-increasing score.
C11_SortedOnePerResultWithPayload ==
    (IndexReturned /\ \A i \in DOMAIN Returned : ~Returned[i].none) =>
      RenderedByScore(Returned, fres.ret)

\* The index returned the lowest score first and two equal scores.
C11_Witness ==
    /\ IndexReturned
    /\ Returned = <<AcnePoint, EczemaPoint, RosaceaPoint>>
    /\ fres.ret = <<Combined(EczemaPoint), Combined(AcnePoint), Combined(RosaceaPoint)>>

\* C12: search returns at most 5 records, and none of a point that scores
\* below 0.4 (40 hundredths), whatever the index holds for the query: the
\* index is given limit=5 and score_threshold=0.4 and keeps to them.
C12_AtMostFiveAboveThreshold ==
    fname = "search" =>
      /\ Len(fres.ret) <= 5
      /\ \A i \in DOMAIN fres.ret : ScoreOf(fres.ret[i]) >= 40
      /\ Len(fres.calls) = 2 =>
           /\ fres.calls[2].arg.limit = 5
           /\ fres.calls[2].arg.score_threshold = 40

\* The index holds six points that score at least 0.4 and one below.
C12_Witness ==
    /\ fname = "search"
    /\ fargs.idx.ok
    /\ Len(AtLeast(fargs.idx.val, 40)) = 6
    /\ Len(fargs.idx.val) = 7
    /\ Len(fres.ret) = 5

\* Something raises inside search: model.encode, client.search, or the
\* projection of a returned point that has no payload.
SearchFails(enc, idx) ==
    \/ ~enc.ok
    \/ ~idx.ok
    \/ \E i \in DOMAIN client_search(idx.val, 5, 40) :
         client_search(idx.val, 5, 40)[i].none

\* C13: whatever model.encode and client.search do, search raises nothing,
\* and it returns the empty sequence if one of them raises or a returned
\* point has no payload; main goes on with what search returned, and on the
\* empty sequence its next step sends the fixed no-information message and
\* invokes no generation.
C13_SearchNeverRaises ==
    [][\A p \in Procs :
         /\ (pc[p] = "normalized" /\ pc'[p] # pc[p]) =>
              /\ \A enc \in EncodeOutcomes, idx \in IndexOutcomes :
                   /\ ~search(query[p], enc, idx).exc
                   /\ SearchFails(enc, idx) => search(query[p], enc, idx).ret = <<>>
              /\ pc'[p] = "retrieved"
              /\ \E enc \in EncodeOutcomes, idx \in IndexOutcomes :
                   results'[p] = search(query[p], enc, idx).ret
         /\ (pc[p] = "retrieved" /\ pc'[p] # pc[p]
             /\ \E enc \in EncodeOutcomes, idx \in IndexOutcomes :
                  SearchFails(enc, idx) /\ results[p] = search(query[p], enc, idx).ret) =>
              /\ Texts(sent'[p]) = <<NoInfoMsg>>
              /\ "generate" \notin Range(trace'[p])
      ]_vars

\* The search of a translated query has returned to main after a point
\* without payload, and the search of another message after a failed encode.
C13_Witness ==
    \E p, q \in Procs :
      /\ p # q
      /\ pc[p] = "retrieved" /\ pc[q] = "retrieved"
      /\ query[p] # content[p]
      /\ results[p] = search(query[p], Ok(<<"vector">>), Ok(<<NoPayloadPoint(70)>>)).ret
      /\ results[q] = search(query[q], Raise, Raise).ret
      /\ results[p] = <<>> /\ results[q] = <<>>

\* generate_response_with_ollama was called on its own and its LLM call
\* returned.
GenerationSucceeded ==
    fname = "generate_response_with_ollama" /\ fargs.llm.ok

\* The text begins with the fixed opening phrase and ends with the closing.
OpensAndCloses(text) ==
    /\ text # <<>>
    /\ text[1] = "Terima kasih telah berkonsultasi dengan C-Skin."
    /\ text[Len(text)] =
         "Semoga informasi ini bermanfaat, lekas sembuh, dan terima kasih."

\* C14 (as claimed): whenever generation succeeds, the returned response
\* begins with the fixed opening phrase and ends with the fixed closing one.
C14_OpeningAndClosing ==
    GenerationSucceeded => OpensAndCloses(fres.ret)

\* The text without the whitespace before its first and after its last word.
Words(text) ==
    LET at == {i \in DOMAIN text : text[i] \notin WS}
        lo == CHOOSE i \in at : \A j \in at : i <= j
        hi == CHOOSE i \in at : \A j \in at : j <= i
    IN  IF at = {} THEN <<>> ELSE [i \in 1..(hi - lo + 1) |-> text[lo + i - 1]]

\* C14 (amended): whenever generation succeeds, the prompt given to the LLM
\* asks for the fixed opening and closing phrases verbatim, and the returned
\* response is the LLM's answer without its surrounding whitespace: it begins
\* with the opening phrase and ends with the closing phrase exactly when the
\* LLM's answer does.
C14_OpeningAndClosingIfAnswered ==
    GenerationSucceeded =>
      /\ fres.calls[1].arg.opening = "Terima kasih telah berkonsultasi dengan C-Skin."
      /\ fres.calls[1].arg.closing =
           "Semoga informasi ini bermanfaat, lekas sembuh, dan terima kasih."
      /\ fres.ret = Words(fargs.llm.val)
      /\ OpensAndCloses(fres.ret) <=> OpensAndCloses(Words(fargs.llm.val))

\* An answer with both phrases and whitespace around it.
C14_Witness ==
    /\ GenerationSucceeded
    /\ fargs.llm.val[1] \in WS
    /\ OpensAndCloses(fres.ret)
    /\ Len(fres.ret) = Len(fargs.llm.val) - 2

\* C15 (as claimed): the prompt generate_response_with_ollama gives to the
\* LLM embeds the context block: the retrieved records in retrieval order,
\* each under its label "Doc 1:", "Doc 2:", ...
C15_PromptEmbedsContextBlock ==
    fname = "generate_response_with_ollama" =>
      /\ fres.calls[1].op = "llama.invoke"
      /\ fres.calls[1].arg.context = ContextText(fargs.context, 1)

\* C16: no exception leaves generate_response_with_ollama, and when its LLM
\* call raises it returns the fixed string "Terjadi kesalahan saat
\* menghasilkan jawaban. Silakan coba lagi.".
C16_GenerationErrorString ==
    fname = "generate_response_with_ollama" =>
      /\ ~fres.exc
      /\ ~fargs.llm.ok =>
           fres.ret = <<"Terjadi kesalahan saat menghasilkan jawaban. Silakan coba lagi.">>

C16_Witness ==
    /\ fname = "generate_response_with_ollama"
    /\ Len(fargs.context) = 2
    /\ fres.calls = <<Call("llama.invoke", Prompt(fargs.context, fargs.query, DefaultTone),
                           Raise)>>
    /\ fres.ret = GenerationErrorMsg
    /\ ~fres.exc

\* The calls main makes for a message whose retrieval is not empty.
NonEmptyPath == UpToSearch \o <<"generate", "append", "set", "send">>

\* C17: on the non-empty path main normalizes, retrieves, generates, stores
\* the assistant turn in the session history and sends the response, in this
\* order and each once; the turn is stored before the response is sent, so
\* it is stored also when that send raises (the only further call is then
\* the send of the except clause).
C17_StepsInOrder ==
    [][\A p \in Procs :
         pc'[p] # pc[p] =>
           /\ pc[p] = "idle" => trace'[p] = <<"detect_and_translate">>
           /\ pc[p] = "normalized" => trace'[p] = UpToSearch
           /\ (pc[p] = "retrieved" /\ results[p] # <<>>) =>
                trace'[p] = UpToSearch \o <<"generate">>
           /\ pc[p] = "generated" =>
                /\ trace'[p] = NonEmptyPath
                /\ session' = history[p]
                /\ StoredHistory'[Len(StoredHistory')] = AssistantTurn(response[p])
                /\ sent'[p] = <<Msg(response[p], pc'[p] = "done")>>
           /\ "generate" \in Range(trace'[p]) =>
                \/ IsPrefix(trace'[p], NonEmptyPath)
                \/ trace'[p] = NonEmptyPath \o <<"send">> /\ ~sent'[p][1].ok
      ]_vars

\* The send of the response has raised, and the assistant turn is stored.
C17_Witness ==
    \E p \in Procs :
      /\ pc[p] = "except"
      /\ trace[p] = NonEmptyPath
      /\ sent[p] = <<Msg(response[p], FALSE)>>
      /\ session = history[p]
      /\ StoredHistory[Len(StoredHistory)] = AssistantTurn(response[p])

\* The fixed string generate_response_with_ollama returns after a failure.
GenerationFailedText ==
    <<"Terjadi kesalahan saat menghasilkan jawaban. Silakan coba lagi.">>

\* C18: when the LLM call of the generation raises for a message whose
\* retrieval was not empty, main goes on as after an answer: the fixed
\* generation-error string becomes the response, is appended to the session
\* history as an assistant turn and is sent, and if that send returns main
\* has sent nothing else (no generic error message).
C18_GenerationErrorIsAnAnswer ==
    [][\A p \in Procs :
         /\ (pc[p] = "retrieved" /\ results[p] # <<>> /\ pc'[p] # pc[p]
             /\ ~calls'[p][2].ok) =>
              /\ pc'[p] = "generated"
              /\ response'[p] = GenerationFailedText
         /\ (pc[p] = "generated" /\ response[p] = GenerationFailedText
             /\ pc'[p] # pc[p]) =>
              /\ heap'[history[p]] =
                   Append(heap[history[p]], AssistantTurn(GenerationFailedText))
              /\ session' = history[p]
              /\ Texts(sent'[p]) = <<GenerationFailedText>>
              /\ pc'[p] = IF sent'[p][1].ok THEN "done" ELSE "except"
      ]_vars

C18_Witness ==
    \E p \in Procs :
      /\ pc[p] = "done"
      /\ trace[p] = NonEmptyPath
      /\ sent[p] = <<Msg(GenerationFailedText, TRUE)>>
      /\ StoredHistory[Len(StoredHistory)] = AssistantTurn(GenerationFailedText)
      /\ StoredHistory[Len(StoredHistory) - 1] = UserTurn(content[p])

\* C19: as long as no send of main has raised, main has sent at most one
\* message, and when it has returned it has sent exactly one: the fixed
\* no-information message, the generated response (the text of the assistant
\* turn it appended), or the generic internal-error message.
C19_ExactlyOneMessage ==
    \A p \in Procs :
      AllDelivered(p) =>
        /\ Len(sent[p]) <= 1
        /\ pc[p] = "done" =>
             /\ Len(sent[p]) = 1
             /\ \/ sent[p][1].text = NoInfoMsg /\ "generate" \notin Range(trace[p])
                \/ /\ "generate" \in Range(trace[p])
                   /\ \E l \in ListIds :
                        AssistantTurn(sent[p][1].text) \in Range(heap[l])
                \/ sent[p][1].text = InternalErrorMsg

\* Two messages handled, one answered with the no-information message and
\* one with a generated response.
C19_Witness ==
    \E p, q \in Procs :
      /\ pc[p] = "done" /\ pc[q] = "done"
      /\ sent[p] = <<Msg(NoInfoMsg, TRUE)>>
      /\ Len(sent[q]) = 1
      /\ sent[q][1].ok
      /\ trace[q] = NonEmptyPath

\* C20: when the messages of a session are handled one at a time, every
\* assistant turn of the stored history comes right after a user turn (so no
\* two assistant turns are adjacent), and the assistant turn of a message
\* that was answered comes right after the user turn with that message's
\* raw text.
C20_AssistantFollowsItsUser ==
    /\ \A i \in DOMAIN StoredHistory :
         StoredHistory[i]["role"] = "assistant" =>
           i > 1 /\ StoredHistory[i - 1]["role"] = "user"
    /\ \A p \in Procs :
         "set" \in Range(trace[p]) =>
           \E i \in 1..(Len(StoredHistory) - 1) :
             /\ StoredHistory[i] = UserTurn(content[p])
             /\ StoredHistory[i + 1] = AssistantTurn(sent[p][1].text)

\* Two messages answered one after the other.
C20_Witness ==
    \E p, q \in Procs :
      /\ p < q
      /\ pc[p] = "done" /\ pc[q] = "done"
      /\ Len(StoredHistory) >= 4
      /\ SubSeq(StoredHistory, Len(StoredHistory) - 3, Len(StoredHistory)) =
           <<UserTurn(content[p]), AssistantTurn(sent[p][1].text),
             UserTurn(content[q]), AssistantTurn(sent[q][1].text)>>

====
